---- MODULE Spec2Model ----
(***************************************************************************)
(* The tool reconciler of uv: `uv tool install` (install.rs) and           *)
(* `uv tool upgrade` (upgrade.rs), as a state machine over the receipts,   *)
(* environments and entrypoints of an installation root and the exclusive  *)
(* lock that guards them.                                                  *)
(*                                                                         *)
(* Every call of a collaborator (InstalledTools, the resolver, the         *)
(* environment builder, the entrypoint manager) is one step of the         *)
(* invocation that makes it.  The statements of a function that precede    *)
(* `acquire_lock` touch no installation state, so they are taken in the    *)
(* same step as the acquisition.                                           *)
(***************************************************************************)
EXTENDS Integers, Sequences, FiniteSets, TLC

\* Bounds of the model.
MaxRuns == 2        \* times an invoker issues its command
MaxWith == 1        \* length of the --with list

Procs == {1, 2}
Tools == {"a", "b"}

None == [kind |-> "None"]
Some(v) == [kind |-> "Some", value |-> v]

\* Requirement sources.  "a==1" is a requirement on package "a" that is more
\* than a bare name; "nope" is a source the resolver cannot name.
PackageArgs == {"a", "b", "a==1"}
FromArgs == {"none", "b", "nope"}
WithSources == {"w", "nope"}
PythonArgs == {"none", "py2", "py9"}

RECURSIVE SeqsUpTo(_, _)
SeqsUpTo(S, n) ==
  IF n = 0 THEN {<<>>}
  ELSE LET shorter == SeqsUpTo(S, n - 1)
       IN  shorter \cup {Append(s, x) : s \in {t \in shorter : Len(t) = n - 1}, x \in S}

WithArgs == SeqsUpTo(WithSources, MaxWith)

\* ToolOptions / ResolverInstallerOptions: two optional fields.
Options(i, r) == [index_url |-> i, resolution |-> r]
NoOptions == Options("none", "none")
StoredOptions == Options("i1", "none")
InstallOptions == {NoOptions, StoredOptions}
UpgradeOptions == {NoOptions, Options("i2", "none")}
FilesystemOptions == {NoOptions, Options("i3", "r3")}

\* settings.reinstall and settings.upgrade
SettingsInputs ==
  { [reinstall |-> FALSE, upgrade |-> FALSE],
    [reinstall |-> TRUE, upgrade |-> FALSE],
    [reinstall |-> FALSE, upgrade |-> TRUE] }

\* ------------------------------------------------------------------------
\* Stored state of an installation root.

Absent == [kind |-> "Absent"]
Invalid == [kind |-> "Invalid"]
Valid(reqs, opts, py) ==
  [kind |-> "Valid", requirements |-> reqs, options |-> opts, python |-> py]

NoEnv == [kind |-> "NoEnv"]
BadEnv == [kind |-> "Bad"]
Env(interp, reqs, synced) ==
  [kind |-> "Env", interpreter |-> interp, requirements |-> reqs, synced |-> synced]

NoShim == [kind |-> "NoShim"]
ExtShim == [kind |-> "Ext"]
Shim(live) == [kind |-> "Shim", live |-> live]

VARIABLES
  receipts,               \* ReceiptStore: tool -> Absent | Invalid | Valid
  envs,                   \* tool -> NoEnv | BadEnv | Env
  shims,                  \* entrypoint of each tool's name -> NoShim | ExtShim | Shim
  lock,                   \* the invocations holding the installation lock
  pc,                     \* position of each invocation
  args,                   \* arguments of the running invocation
  from,                   \* install: the resolved primary requirement
  requirements,           \* install: the candidate requirement set
  interpreter,            \* install: the interpreter found at the start
  options,                \* install: ToolOptions::from(options); upgrade: merged options
  existing_tool_receipt,  \* Option<receipt>
  invalid_tool_receipt,   \* install: bool
  existing_environment,   \* Option<environment>
  names,                  \* upgrade: the names still to process, in order
  targets,                \* upgrade: the names computed at the start
  upgraded,               \* upgrade: the names whose upgrade completed
  trace,                  \* the collaborator calls made so far, in order
  pre,                    \* stored state when the lock was acquired
  result,                 \* the value the invocation returns
  previous,               \* the value the invoker's previous invocation returned
  budget,                 \* times each invoker may still issue its command
  scenario                \* "sequential" or "concurrent"

vars ==
  << receipts, envs, shims, lock, pc, args, from, requirements, interpreter,
     options, existing_tool_receipt, invalid_tool_receipt, existing_environment,
     names, targets, upgraded, trace, pre, result, previous, budget, scenario >>

stored == << receipts, envs, shims >>

locals ==
  << from, requirements, interpreter, options, existing_tool_receipt,
     invalid_tool_receipt, existing_environment, names, targets, upgraded >>

\* ------------------------------------------------------------------------
\* Results.

Ok(v) == [kind |-> "Ok", value |-> v]
Err(e) == [kind |-> "Err", error |-> e]

Success(what) == [status |-> "Success", kind |-> what]
Failure(what) == [status |-> "Failure", kind |-> what]
Error(what) == [status |-> "Error", kind |-> what]

\* A call of a collaborator and whether it returned Ok.
Call(op, tool, ok) == [op |-> op, tool |-> tool, ok |-> ok]
CallExecutables(tool, force, ok) ==
  [op |-> "install_executables", tool |-> tool, ok |-> ok, force |-> force]
CallLock(ok) == [op |-> "acquire_lock", ok |-> ok]

\* ------------------------------------------------------------------------
\* Name resolution (install.rs, before the lock).

\* The package name of a requirement.
NameOf(s) == IF s = "a==1" THEN "a" ELSE s

\* PackageName::from_str: a bare name parses, a requirement with a specifier does not.
IsPackageName(s) == s # "a==1"

\* resolve_names: the requirement of a source, or an error.
resolve_names(s) == IF s = "nope" THEN Err("ResolveNames") ELSE Ok(s)

\* PythonInstallation::find_or_download: the interpreter for a request.
find_or_download(python) ==
  IF python = "py9" THEN Err("InterpreterNotFound")
  ELSE Ok(IF python = "none" THEN "py1" ELSE python)

\* python_request.satisfied(environment.interpreter())
satisfied(python, interp) == python = interp

\* Mutant: the name of `--from` is not compared with the positional name.
FromRequirement_Unchecked(package, fr) ==
  IF fr # "none"
  THEN IF ~IsPackageName(package) THEN Err("NameConflict")
       ELSE resolve_names(fr)
  ELSE resolve_names(package)

\* Lines 86-156: the primary requirement.
FromRequirement(package, fr) ==
  IF fr # "none"
  THEN IF ~IsPackageName(package) THEN Err("NameConflict")
       ELSE IF resolve_names(fr).kind = "Err" THEN resolve_names(fr)
       ELSE IF NameOf(resolve_names(fr).value) # package THEN Err("NameConflict")
       ELSE resolve_names(fr)
  ELSE resolve_names(package)

\* Lines 158-181: the candidate requirement set, primary first.
RECURSIVE ResolveAll(_)
ResolveAll(with) ==
  IF with = <<>> THEN Ok(<<>>)
  ELSE LET h == resolve_names(Head(with))
           t == ResolveAll(Tail(with))
       IN  IF h.kind = "Err" THEN h
           ELSE IF t.kind = "Err" THEN t
           ELSE Ok(<<h.value>> \o t.value)

\* Mutant: the primary requirement is pushed after the others.
CandidateRequirements_WithFirst(fr, with) ==
  IF ResolveAll(with).kind = "Err" THEN ResolveAll(with)
  ELSE Ok(ResolveAll(with).value \o <<fr>>)

CandidateRequirements(fr, with) ==
  IF ResolveAll(with).kind = "Err" THEN ResolveAll(with)
  ELSE Ok(<<fr>> \o ResolveAll(with).value)

\* ToolOptions::from(ResolverInstallerOptions) and back: field by field.
ToolOptionsFrom(o) == [index_url |-> o.index_url, resolution |-> o.resolution]
ResolverInstallerOptionsFrom(o) == [index_url |-> o.index_url, resolution |-> o.resolution]

\* Combine: a field of `a` if it is set, else the field of `b`.
combine(a, b) ==
  [index_url |-> IF a.index_url # "none" THEN a.index_url ELSE b.index_url,
   resolution |-> IF a.resolution # "none" THEN a.resolution ELSE b.resolution]

\* Lines 62-184 of install: everything before the lock.
InstallPrelude(a) ==
  LET interp == find_or_download(a.python)
      fr == FromRequirement(a.package, a.from)
  IN  IF interp.kind = "Err" THEN interp
      ELSE IF fr.kind = "Err" THEN fr
      ELSE IF CandidateRequirements(fr.value, a.with).kind = "Err"
           THEN CandidateRequirements(fr.value, a.with)
      ELSE Ok([from |-> fr.value,
               requirements |-> CandidateRequirements(fr.value, a.with).value,
               interpreter |-> interp.value,
               options |-> ToolOptionsFrom(a.options)])

\* The commands: `uv tool install` and `uv tool upgrade` with their arguments.
AllInstallCommands ==
  { [cmd |-> "install", package |-> package, from |-> fr, with |-> with,
     python |-> python, force |-> force, reinstall |-> st.reinstall,
     upgrade |-> st.upgrade, options |-> opts]
      : package \in PackageArgs, fr \in FromArgs, with \in WithArgs,
        python \in PythonArgs, force \in BOOLEAN, st \in SettingsInputs,
        opts \in InstallOptions }

\* The arguments a failing prelude never reads, left at their defaults.
Unread(a) ==
  LET flags == [a EXCEPT !.force = FALSE, !.reinstall = FALSE, !.upgrade = FALSE,
                         !.options = NoOptions]
  IN  IF find_or_download(a.python).kind = "Err"
         \/ FromRequirement(a.package, a.from).kind = "Err"
      THEN [flags EXCEPT !.with = <<>>]
      ELSE flags

\* Of the commands that fail before the lock, one for each choice of the
\* arguments that are read.
InstallCommands ==
  { c \in AllInstallCommands : InstallPrelude(c).kind = "Err" => c = Unread(c) }

UpgradeCommands ==
  { [cmd |-> "upgrade", name |-> name, args |-> cli, filesystem |-> fs]
      : name \in {None} \cup {Some(t) : t \in Tools},
        cli \in UpgradeOptions, fs \in FilesystemOptions }

\* The commands of the concurrent scenario.
ConcurrentCommands ==
  { c \in InstallCommands :
      /\ c.package = "a" /\ c.from = "none" /\ c.with = <<"w">> /\ c.python = "none"
      /\ ~c.reinstall /\ ~c.upgrade /\ c.options = NoOptions }
  \cup { c \in UpgradeCommands : c.args = NoOptions /\ c.filesystem = NoOptions }

\* ------------------------------------------------------------------------
\* InstalledTools, the environment builder and the entrypoint manager.

\* acquire_lock: fails if the lock is held.
acquire_lock(l) == IF l = {} THEN Ok("lock") ELSE Err("LockFailure")

\* Mutant: the error of acquire_lock is dropped.
LockAcquired_Unchecked(r) == TRUE

\* `acquire_lock()?`: the function goes on only with the guard.
LockAcquired(r) == r.kind = "Ok"

\* Mutant: `let _ = ...` drops the guard at once.
BindLock_Unbound(l, p) == l

\* `let _lock = ...`: the guard lives to the end of the function.
BindLock(l, p) == l \cup {p}

\* Mutant: the guard is leaked and never dropped.
DropLock_Leaked(l, p) == l

\* The guard is dropped when the function returns.
DropLock(l, p) == l \ {p}

\* An environment is gone or replaced: a shim made for it is stale.
Stale(s, t) == [s EXCEPT ![t] = IF @.kind = "Shim" THEN Shim(FALSE) ELSE @]

\* remove_entrypoints(receipt): the shims recorded for the tool are deleted.
remove_entrypoints(s, t) == [s EXCEPT ![t] = IF @.kind = "Shim" THEN NoShim ELSE @]

\* get_environment: Ok(None), Ok(Some(environment)) or Err.
get_environment(e) ==
  IF e.kind = "NoEnv" THEN Ok(None)
  ELSE IF e.kind = "Bad" THEN Err("GetEnvironment")
  ELSE Ok(Some(e))

\* install_executables refuses a shim of another owner unless forced.
Collision(s, force) == s.kind = "Ext" /\ ~force

\* tools(): the names with anything stored under the installation root.
tools(r, e) == {t \in Tools : r[t].kind # "Absent" \/ e[t].kind # "NoEnv"}

\* A BTreeSet iterates in order.
RECURSIVE Sorted(_)
Sorted(S) ==
  IF S = {} THEN <<>>
  ELSE LET m == CHOOSE x \in S : \A y \in S : x = y \/ (x = "a" /\ y = "b")
       IN  <<m>> \o Sorted(S \ {m})

\* ------------------------------------------------------------------------
\* Initial states: what an installation root can hold for one tool.

ToolStates ==
  { [receipt |-> Absent, env |-> NoEnv, shim |-> NoShim],
    [receipt |-> Absent, env |-> NoEnv, shim |-> ExtShim],
    [receipt |-> Absent, env |-> Env("py1", <<>>, FALSE), shim |-> NoShim],
    [receipt |-> Invalid, env |-> Env("py1", <<>>, TRUE), shim |-> Shim(TRUE)],
    [receipt |-> Invalid, env |-> NoEnv, shim |-> Shim(FALSE)] }

\* The options in the receipt of an installed tool: each tool has its own.
StoredOptionsOf(t) == IF t = "a" THEN StoredOptions ELSE Options("none", "r1")

Installed(t) ==
  { [receipt |-> Valid(<<t, "w">>, StoredOptionsOf(t), "py1"), env |-> e,
     shim |-> Shim(e.kind = "Env")]
      : e \in {Env("py1", <<t, "w">>, TRUE), NoEnv, BadEnv} }

\* Tool "a" starts in any of these states, tool "b" in four of them.
InitStored ==
  \E sa \in ToolStates \cup Installed("a"),
     sb \in { x \in ToolStates \cup Installed("b") :
               x.env.kind = "Env" \/ (x.receipt = Absent /\ x.shim = NoShim) } :
    /\ receipts = [t \in Tools |-> IF t = "a" THEN sa.receipt ELSE sb.receipt]
    /\ envs = [t \in Tools |-> IF t = "a" THEN sa.env ELSE sb.env]
    /\ shims = [t \in Tools |-> IF t = "a" THEN sa.shim ELSE sb.shim]

InitLocals ==
  /\ lock = {}
  /\ pc = [p \in Procs |-> "idle"]
  /\ args = [p \in Procs |-> None]
  /\ from = [p \in Procs |-> "none"]
  /\ requirements = [p \in Procs |-> <<>>]
  /\ interpreter = [p \in Procs |-> "none"]
  /\ options = [p \in Procs |-> NoOptions]
  /\ existing_tool_receipt = [p \in Procs |-> None]
  /\ invalid_tool_receipt = [p \in Procs |-> FALSE]
  /\ existing_environment = [p \in Procs |-> None]
  /\ names = [p \in Procs |-> <<>>]
  /\ targets = [p \in Procs |-> {}]
  /\ upgraded = [p \in Procs |-> {}]
  /\ trace = [p \in Procs |-> <<>>]
  /\ pre = [p \in Procs |-> None]
  /\ result = [p \in Procs |-> None]
  /\ previous = [p \in Procs |-> None]

\* One invoker issues a command, then the same command again.
Init ==
  /\ InitStored
  /\ InitLocals
  /\ scenario = "sequential"
  /\ budget = [p \in Procs |-> IF p = 1 THEN MaxRuns ELSE 0]

\* Two invokers issue one command each, concurrently.
InitConc ==
  /\ InitStored
  /\ InitLocals
  /\ scenario = "concurrent"
  /\ budget = [p \in Procs |-> 1]

\* The commands an invoker may issue: any the first time, the same afterwards.
Commands(p) ==
  IF args[p] # None THEN {args[p]}
  ELSE IF scenario = "concurrent" THEN ConcurrentCommands
  ELSE InstallCommands \cup UpgradeCommands

\* ------------------------------------------------------------------------
\* install (install.rs).

Set(f, p, v) == [f EXCEPT ![p] = v]
Log(p, call) == trace' = [trace EXCEPT ![p] = Append(@, call)]
Goto(p, label) == pc' = [pc EXCEPT ![p] = label]

\* The function returns `r`: the next step drops its locals and the lock guard.
Finish(p, r) ==
  /\ pc' = [pc EXCEPT ![p] = "return"]
  /\ result' = [result EXCEPT ![p] = r]

\* Mutant: the calls are made for a fixed tool.
Tool_Fixed(p) == "a"

\* &from.name: the tool the calls of install are made for.
Tool(p) == NameOf(from[p])

\* Lines 197-217: what a receipt lookup leaves in
\* (existing_tool_receipt, invalid_tool_receipt).
ReceiptLookup(r) ==
  IF r.kind = "Absent" THEN [receipt |-> None, invalid |-> FALSE]
  ELSE IF r.kind = "Valid" THEN [receipt |-> Some(r), invalid |-> FALSE]
  ELSE [receipt |-> None, invalid |-> TRUE]

\* Mutant: the environment found is kept whatever its interpreter.
FilterEnvironment_Unfiltered(found, python) == found

\* Lines 219-236: the environment found, kept only if it satisfies the
\* requested interpreter.
FilterEnvironment(found, python) ==
  IF found.kind = "Some" /\ python # "none" /\ ~satisfied(python, found.value.interpreter)
  THEN None
  ELSE found

\* Mutant: `settings.reinstall.is_some()` for `is_none()`.
AlreadyInstalled_IsSome(environment, receipt, reqs, force, reinstall, upgrade) ==
  /\ environment.kind = "Some"
  /\ receipt.kind = "Some"
  /\ reqs = receipt.value.requirements
  /\ ~force /\ reinstall /\ ~upgrade

\* Lines 239-244: the install has nothing to do.
AlreadyInstalled(environment, receipt, reqs, force, reinstall, upgrade) ==
  /\ environment.kind = "Some"
  /\ receipt.kind = "Some"
  /\ reqs = receipt.value.requirements
  /\ ~force /\ ~reinstall /\ ~upgrade

\* Mutant: the receipt is rewritten whatever its options.
OptionsDiffer_Always(receipt, opts) == TRUE

\* Line 245: the receipt is rewritten only if the options differ.
OptionsDiffer(receipt, opts) == receipt.options # opts

\* Line 249: tool_receipt.clone().with_options(options)
with_options(receipt, opts) == [receipt EXCEPT !.options = opts]

\* Mutant: an invalid receipt does not force the overwrite.
InstallForce_FlagOnly(force, invalid) == force

\* Line 352: the force passed to install_executables.
InstallForce(force, invalid) == force \/ invalid

\* The lock is taken: the stored state of that moment is remembered.
Acquire(p) ==
  /\ lock' = BindLock(lock, p)
  /\ pre' = Set(pre, p, [receipts |-> receipts, envs |-> envs, shims |-> shims])

\* Lines 52-187: resolve the names, then take the lock.
InstallBegin(p) ==
  /\ pc[p] = "idle"
  /\ budget[p] > 0
  /\ \E a \in Commands(p) :
       /\ a.cmd = "install"
       /\ args' = Set(args, p, a)
       /\ budget' = Set(budget, p, budget[p] - 1)
       /\ IF InstallPrelude(a).kind = "Err"
          THEN /\ Finish(p, Error(InstallPrelude(a).error))
               /\ UNCHANGED << lock, from, requirements, interpreter, options,
                               trace, pre >>
          ELSE /\ from' = Set(from, p, InstallPrelude(a).value.from)
               /\ requirements' = Set(requirements, p, InstallPrelude(a).value.requirements)
               /\ interpreter' = Set(interpreter, p, InstallPrelude(a).value.interpreter)
               /\ options' = Set(options, p, InstallPrelude(a).value.options)
               /\ Log(p, CallLock(acquire_lock(lock).kind = "Ok"))
               /\ IF ~LockAcquired(acquire_lock(lock))
                  THEN /\ Finish(p, Error(acquire_lock(lock).error))
                       /\ UNCHANGED << lock, pre >>
                  ELSE /\ Acquire(p)
                       /\ Goto(p, "i_get_tool_receipt")
                       /\ UNCHANGED result
  /\ UNCHANGED << stored, existing_tool_receipt, invalid_tool_receipt,
                  existing_environment, names, targets, upgraded, previous,
                  scenario >>

\* Lines 197-201, 215: get_tool_receipt.
InstallGetToolReceipt(p) ==
  /\ pc[p] = "i_get_tool_receipt"
  /\ Log(p, Call("get_tool_receipt", Tool(p), receipts[Tool(p)].kind # "Invalid"))
  /\ existing_tool_receipt' =
       Set(existing_tool_receipt, p, ReceiptLookup(receipts[Tool(p)]).receipt)
  /\ invalid_tool_receipt' =
       Set(invalid_tool_receipt, p, ReceiptLookup(receipts[Tool(p)]).invalid)
  /\ Goto(p, IF receipts[Tool(p)].kind = "Invalid"
             THEN "i_remove_environment" ELSE "i_get_environment")
  /\ UNCHANGED << stored, lock, args, from, requirements, interpreter, options,
                  existing_environment, names, targets, upgraded, pre, result, previous, budget, scenario >>

\* Lines 203-214: remove_environment after an invalid receipt.  A missing
\* environment is NotFound, which is ignored; any other error is returned.
InstallRemoveEnvironment(p) ==
  /\ pc[p] = "i_remove_environment"
  /\ \E io \in BOOLEAN :
       /\ Log(p, Call("remove_environment", Tool(p), io /\ envs[Tool(p)].kind # "NoEnv"))
       /\ IF envs[Tool(p)].kind = "NoEnv"
          THEN /\ Goto(p, "i_get_environment")
               /\ UNCHANGED << stored, result >>
          ELSE IF io
          THEN /\ envs' = [envs EXCEPT ![Tool(p)] = NoEnv]
               /\ shims' = Stale(shims, Tool(p))
               /\ Goto(p, "i_get_environment")
               /\ UNCHANGED << receipts, result >>
          ELSE /\ Finish(p, Error("RemoveEnvironment"))
               /\ UNCHANGED stored
  /\ UNCHANGED << lock, args, locals, pre, previous, budget, scenario >>

\* Lines 219-264: get_environment, then the decision.
InstallGetEnvironment(p) ==
  /\ pc[p] = "i_get_environment"
  /\ Log(p, Call("get_environment", Tool(p), get_environment(envs[Tool(p)]).kind = "Ok"))
  /\ LET found == get_environment(envs[Tool(p)])
         environment == FilterEnvironment(found.value, args[p].python)
     IN  IF found.kind = "Err"
         THEN /\ Finish(p, Error(found.error))
              /\ UNCHANGED existing_environment
         ELSE /\ existing_environment' = Set(existing_environment, p, environment)
              /\ IF AlreadyInstalled(environment, existing_tool_receipt[p],
                                     requirements[p], args[p].force,
                                     args[p].reinstall, args[p].upgrade)
                 THEN IF OptionsDiffer(existing_tool_receipt[p].value, options[p])
                      THEN Goto(p, "i_add_tool_receipt") /\ UNCHANGED result
                      ELSE Finish(p, Success("AlreadyInstalled"))
                 ELSE /\ Goto(p, IF environment.kind = "Some"
                                 THEN "i_update_environment"
                                 ELSE "i_resolve_environment")
                      /\ UNCHANGED result
  /\ UNCHANGED << stored, lock, args, from, requirements, interpreter, options,
                  existing_tool_receipt, invalid_tool_receipt, names, targets,
                  upgraded, pre, previous, budget, scenario >>

\* Lines 245-260: the receipt is rewritten with the requested options.
InstallAddToolReceipt(p) ==
  /\ pc[p] = "i_add_tool_receipt"
  /\ \E io \in BOOLEAN :
       /\ Log(p, Call("add_tool_receipt", Tool(p), io))
       /\ IF io
          THEN /\ receipts' = [receipts EXCEPT ![Tool(p)] =
                                 with_options(existing_tool_receipt[p].value, options[p])]
               /\ Finish(p, Success("AlreadyInstalled"))
          ELSE /\ Finish(p, Error("AddToolReceipt"))
               /\ UNCHANGED receipts
  /\ UNCHANGED << envs, shims, lock, args, locals, pre, previous, budget, scenario >>

\* Mutant: the error of the update is dropped.
Updated_Ignored(ok) == TRUE

\* `update_environment(...).await?`: the function goes on only if the update is Ok.
Updated(ok) == ok

\* update_environment: the environment is brought to `reqs` in place; a
\* failure leaves it as it was or partially updated.
UpdateEnvironment(p, t, reqs, next) ==
  /\ \E io \in BOOLEAN, partial \in BOOLEAN :
       /\ Log(p, Call("update_environment", t, io))
       /\ IF Updated(io)
          THEN /\ envs' = [envs EXCEPT ![t] = Env(@.interpreter, reqs, TRUE)]
               /\ Goto(p, next)
               /\ UNCHANGED result
          ELSE /\ envs' = [envs EXCEPT ![t] =
                             IF partial THEN Env(@.interpreter, reqs, FALSE) ELSE @]
               /\ Finish(p, Error("UpdateEnvironment"))

\* Lines 280-295.
InstallUpdateEnvironment(p) ==
  /\ pc[p] = "i_update_environment"
  /\ UpdateEnvironment(p, Tool(p), requirements[p],
                       IF existing_tool_receipt[p].kind = "Some"
                       THEN "i_remove_entrypoints" ELSE "i_install_executables")
  /\ UNCHANGED << receipts, shims, lock, args, locals, pre, previous, budget, scenario >>

\* Mutant: the error of the resolution is dropped.
Propagate_Ignored(ok) == TRUE

\* Line 320, `.await?`: the function goes on only if the resolution is Ok.
Propagate(ok) == ok

\* Lines 307-320: the resolution for a new environment changes nothing.
InstallResolveEnvironment(p) ==
  /\ pc[p] = "i_resolve_environment"
  /\ \E io \in BOOLEAN :
       /\ Log(p, Call("resolve_environment", Tool(p), io))
       /\ IF Propagate(io)
          THEN Goto(p, "i_create_environment") /\ UNCHANGED result
          ELSE Finish(p, Error("ResolveEnvironment"))
  /\ UNCHANGED << stored, lock, args, locals, pre, previous, budget, scenario >>

\* Line 322: create_environment replaces whatever environment the tool had.
InstallCreateEnvironment(p) ==
  /\ pc[p] = "i_create_environment"
  /\ \E io \in BOOLEAN :
       /\ Log(p, Call("create_environment", Tool(p), io))
       /\ IF io
          THEN /\ envs' = [envs EXCEPT ![Tool(p)] = Env(interpreter[p], <<>>, FALSE)]
               /\ shims' = Stale(shims, Tool(p))
               /\ Goto(p, IF existing_tool_receipt[p].kind = "Some"
                          THEN "i_remove_entrypoints" ELSE "i_sync_environment")
               /\ UNCHANGED result
          ELSE /\ Finish(p, Error("CreateEnvironment"))
               /\ UNCHANGED << envs, shims >>
  /\ UNCHANGED << receipts, lock, args, locals, pre, previous, budget, scenario >>

\* Lines 299-301 and 326-328: the entrypoints of the old receipt are removed.
InstallRemoveEntrypoints(p) ==
  /\ pc[p] = "i_remove_entrypoints"
  /\ Log(p, Call("remove_entrypoints", Tool(p), TRUE))
  /\ shims' = remove_entrypoints(shims, Tool(p))
  /\ Goto(p, IF existing_environment[p].kind = "Some"
             THEN "i_install_executables" ELSE "i_sync_environment")
  /\ UNCHANGED << receipts, envs, lock, args, locals, pre, result, previous, budget, scenario >>

\* Lines 331-344.
InstallSyncEnvironment(p) ==
  /\ pc[p] = "i_sync_environment"
  /\ \E io \in BOOLEAN :
       /\ Log(p, Call("sync_environment", Tool(p), io))
       /\ IF io
          THEN /\ envs' = [envs EXCEPT ![Tool(p)] = Env(@.interpreter, requirements[p], TRUE)]
               /\ Goto(p, "i_install_executables")
               /\ UNCHANGED result
          ELSE /\ Finish(p, Error("SyncEnvironment"))
               /\ UNCHANGED envs
  /\ UNCHANGED << receipts, shims, lock, args, locals, pre, previous, budget, scenario >>

\* install_executables: the shims are written and the receipt persisted,
\* unless a shim of another owner is in the way or the call fails.
InstallExecutables(p, t, opts, force, python, reqs, io) ==
  /\ Log(p, CallExecutables(t, force, io /\ ~Collision(shims[t], force)))
  /\ IF io /\ ~Collision(shims[t], force)
     THEN /\ shims' = [shims EXCEPT ![t] = Shim(TRUE)]
          /\ receipts' = [receipts EXCEPT ![t] = Valid(reqs, opts, python)]
     ELSE UNCHANGED << receipts, shims >>

\* Lines 347-357.
InstallInstallExecutables(p) ==
  /\ pc[p] = "i_install_executables"
  /\ \E io \in BOOLEAN :
       LET force == InstallForce(args[p].force, invalid_tool_receipt[p])
       IN  /\ InstallExecutables(p, Tool(p), options[p], force, args[p].python,
                                 requirements[p], io)
           /\ Finish(p, IF io /\ ~Collision(shims[Tool(p)], force)
                        THEN Success("Installed") ELSE Error("InstallExecutables"))
  /\ UNCHANGED << envs, lock, args, locals, pre, previous, budget, scenario >>

\* ------------------------------------------------------------------------
\* upgrade (upgrade.rs).

\* Mutant: the user's defaults are preferred to the receipt.
UpgradeOptionsOf_UserFirst(cli, receipt, filesystem) ==
  combine(cli, combine(filesystem, ResolverInstallerOptionsFrom(receipt.options)))

\* Lines 113-116: CLI > receipt > user.
UpgradeOptionsOf(cli, receipt, filesystem) ==
  combine(cli, combine(ResolverInstallerOptionsFrom(receipt.options), filesystem))

\* Mutant: the missing target is reported, yet the status is success.
MissingTool_Success(what) == [return |-> TRUE, result |-> Success(what)]

\* Mutant: the loop skips the target with `continue`.
MissingTool_Skipped(what) == [return |-> FALSE, result |-> Failure(what)]

\* Lines 66-85 and 90-109: a target without a valid receipt or environment
\* ends the invocation with a failure.
MissingTool(what) == [return |-> TRUE, result |-> Failure(what)]

\* Mutant: the check for an empty set of names is missing.
NothingToUpgrade_Unchecked(S) == FALSE

\* Line 55: names.is_empty()
NothingToUpgrade(S) == S = {}

\* Mutant: only the tool itself is required again.
UpgradeRequirements_ToolOnly(receipt) == << Head(receipt.requirements) >>

\* Line 120: the requirements to resolve are the receipt's.
UpgradeRequirements(receipt) == receipt.requirements

\* Lines 60 and 158: the loop takes the next name, or the function returns
\* success after the last.
Loop(p, rest) ==
  /\ names' = Set(names, p, rest)
  /\ IF rest = <<>>
     THEN Finish(p, Success("Upgraded"))
     ELSE Goto(p, "u_get_tool_receipt") /\ UNCHANGED result

Continue(p) == Loop(p, Tail(names[p]))

\* What the loop does with a target that is missing something.
Missing(p, m) ==
  IF m.return THEN Finish(p, m.result) /\ UNCHANGED names ELSE Continue(p)

\* Lines 34-45: take the lock; a given name is the only target.
UpgradeBegin(p) ==
  /\ pc[p] = "idle"
  /\ budget[p] > 0
  /\ \E a \in Commands(p) :
       /\ a.cmd = "upgrade"
       /\ args' = Set(args, p, a)
       /\ budget' = Set(budget, p, budget[p] - 1)
       /\ Log(p, CallLock(acquire_lock(lock).kind = "Ok"))
       /\ IF ~LockAcquired(acquire_lock(lock))
          THEN /\ Finish(p, Error(acquire_lock(lock).error))
               /\ UNCHANGED << lock, pre, names, targets >>
          ELSE /\ Acquire(p)
               /\ UNCHANGED result
               /\ IF a.name = None
                  THEN Goto(p, "u_tools") /\ UNCHANGED << names, targets >>
                  ELSE /\ names' = Set(names, p, << a.name.value >>)
                       /\ targets' = Set(targets, p, {a.name.value})
                       /\ Goto(p, "u_get_tool_receipt")
  /\ UNCHANGED << stored, from, requirements, interpreter, options,
                  existing_tool_receipt, invalid_tool_receipt,
                  existing_environment, upgraded, previous, scenario >>

\* Lines 46-58: without a name, every installed tool is a target.
UpgradeTools(p) ==
  /\ pc[p] = "u_tools"
  /\ Log(p, [op |-> "tools", ok |-> TRUE])
  /\ targets' = Set(targets, p, tools(receipts, envs))
  /\ IF NothingToUpgrade(tools(receipts, envs))
     THEN /\ names' = Set(names, p, Sorted(tools(receipts, envs)))
          /\ Finish(p, Success("NothingToUpgrade"))
     ELSE Loop(p, Sorted(tools(receipts, envs)))
  /\ UNCHANGED << stored, lock, args, from, requirements, interpreter, options,
                  existing_tool_receipt, invalid_tool_receipt,
                  existing_environment, upgraded, pre, previous, budget, scenario >>

\* Lines 64-86.
UpgradeGetToolReceipt(p) ==
  /\ pc[p] = "u_get_tool_receipt"
  /\ Log(p, Call("get_tool_receipt", Head(names[p]), receipts[Head(names[p])].kind # "Invalid"))
  /\ LET r == receipts[Head(names[p])]
     IN  IF r.kind = "Valid"
         THEN /\ existing_tool_receipt' = Set(existing_tool_receipt, p, Some(r))
              /\ Goto(p, "u_get_environment")
              /\ UNCHANGED << names, result >>
         ELSE /\ Missing(p, MissingTool(IF r.kind = "Absent" THEN "NotInstalled"
                                        ELSE "InvalidReceipt"))
              /\ UNCHANGED existing_tool_receipt
  /\ UNCHANGED << stored, lock, args, from, requirements, interpreter, options,
                  invalid_tool_receipt, existing_environment, targets, upgraded,
                  pre, previous, budget, scenario >>

\* Lines 88-117.
UpgradeGetEnvironment(p) ==
  /\ pc[p] = "u_get_environment"
  /\ Log(p, Call("get_environment", Head(names[p]),
                  get_environment(envs[Head(names[p])]).kind = "Ok"))
  /\ LET found == get_environment(envs[Head(names[p])])
     IN  IF found.kind = "Ok" /\ found.value.kind = "Some"
         THEN /\ existing_environment' = Set(existing_environment, p, found.value)
              /\ options' = Set(options, p,
                                UpgradeOptionsOf(args[p].args, existing_tool_receipt[p].value,
                                                 args[p].filesystem))
              /\ Goto(p, "u_update_environment")
              /\ UNCHANGED << names, result >>
         ELSE /\ Missing(p, MissingTool(IF found.kind = "Ok" THEN "NotInstalled"
                                        ELSE "InvalidEnvironment"))
              /\ UNCHANGED << existing_environment, options >>
  /\ UNCHANGED << stored, lock, args, from, requirements, interpreter,
                  existing_tool_receipt, invalid_tool_receipt, targets, upgraded,
                  pre, previous, budget, scenario >>

\* Lines 119-139: the requirements are those of the receipt.
UpgradeUpdateEnvironment(p) ==
  /\ pc[p] = "u_update_environment"
  /\ UpdateEnvironment(p, Head(names[p]),
                       UpgradeRequirements(existing_tool_receipt[p].value),
                       "u_remove_entrypoints")
  /\ UNCHANGED << receipts, shims, lock, args, locals, pre, previous, budget, scenario >>

\* Line 143.
UpgradeRemoveEntrypoints(p) ==
  /\ pc[p] = "u_remove_entrypoints"
  /\ Log(p, Call("remove_entrypoints", Head(names[p]), TRUE))
  /\ shims' = remove_entrypoints(shims, Head(names[p]))
  /\ Goto(p, "u_install_executables")
  /\ UNCHANGED << receipts, envs, lock, args, locals, pre, result, previous, budget, scenario >>

\* Lines 145-156.
UpgradeInstallExecutables(p) ==
  /\ pc[p] = "u_install_executables"
  /\ \E io \in BOOLEAN :
       /\ InstallExecutables(p, Head(names[p]), ToolOptionsFrom(options[p]), TRUE,
                             existing_tool_receipt[p].value.python,
                             UpgradeRequirements(existing_tool_receipt[p].value), io)
       /\ IF io
          THEN /\ upgraded' = Set(upgraded, p, upgraded[p] \cup {Head(names[p])})
               /\ Continue(p)
          ELSE /\ Finish(p, Error("InstallExecutables"))
               /\ UNCHANGED << names, upgraded >>
  /\ UNCHANGED << envs, lock, args, from, requirements, interpreter, options,
                  existing_tool_receipt, invalid_tool_receipt,
                  existing_environment, targets, pre, previous, budget, scenario >>

\* The function returns: `_lock` goes out of scope.
Return(p) ==
  /\ pc[p] = "return"
  /\ lock' = DropLock(lock, p)
  /\ pc' = Set(pc, p, "idle")
  /\ from' = Set(from, p, "none")
  /\ requirements' = Set(requirements, p, <<>>)
  /\ interpreter' = Set(interpreter, p, "none")
  /\ options' = Set(options, p, NoOptions)
  /\ existing_tool_receipt' = Set(existing_tool_receipt, p, None)
  /\ invalid_tool_receipt' = Set(invalid_tool_receipt, p, FALSE)
  /\ existing_environment' = Set(existing_environment, p, None)
  /\ names' = Set(names, p, <<>>)
  /\ targets' = Set(targets, p, {})
  /\ upgraded' = Set(upgraded, p, {})
  /\ trace' = Set(trace, p, <<>>)
  /\ pre' = Set(pre, p, None)
  /\ result' = Set(result, p, None)
  /\ previous' = Set(previous, p, result[p])
  /\ UNCHANGED << stored, args, budget, scenario >>

Next ==
  \E p \in Procs :
    \/ InstallBegin(p)
    \/ InstallGetToolReceipt(p)
    \/ InstallRemoveEnvironment(p)
    \/ InstallGetEnvironment(p)
    \/ InstallAddToolReceipt(p)
    \/ InstallUpdateEnvironment(p)
    \/ InstallResolveEnvironment(p)
    \/ InstallCreateEnvironment(p)
    \/ InstallRemoveEntrypoints(p)
    \/ InstallSyncEnvironment(p)
    \/ InstallInstallExecutables(p)
    \/ UpgradeBegin(p)
    \/ UpgradeTools(p)
    \/ UpgradeGetToolReceipt(p)
    \/ UpgradeGetEnvironment(p)
    \/ UpgradeUpdateEnvironment(p)
    \/ UpgradeRemoveEntrypoints(p)
    \/ UpgradeInstallExecutables(p)
    \/ Return(p)

Spec == Init /\ [][Next]_vars
SpecConc == InitConc /\ [][Next]_vars

\* ------------------------------------------------------------------------
\* Properties.

Returning(p) == pc[p] = "return"
Installing(p) == args[p] # None /\ args[p].cmd = "install" /\ pre[p] # None
Upgrading(p) == args[p] # None /\ args[p].cmd = "upgrade" /\ pre[p] # None

Called(p, ops) == \E i \in 1..Len(trace[p]) : trace[p][i].op \in ops
CalledFor(p, op, t) ==
  \E i \in 1..Len(trace[p]) : trace[p][i].op = op /\ trace[p][i].tool = t

EnvironmentOps ==
  {"remove_environment", "create_environment", "update_environment", "sync_environment"}
EntrypointOps == {"remove_entrypoints", "install_executables"}

\* The receipts differ at most in the options of the receipt of `t`.
OnlyOptionsOf(t, before, after) ==
  /\ \A u \in Tools \ {t} : after[u] = before[u]
  /\ after[t].kind = before[t].kind
  /\ before[t].kind = "Valid" =>
       [after[t] EXCEPT !.options = before[t].options] = before[t]

\* The case of C1: a valid receipt with the candidate requirements, an
\* environment that satisfies the request, no force, reinstall or upgrade.
C1_Case(p) ==
  /\ Installing(p)
  /\ pre[p].receipts[Tool(p)].kind = "Valid"
  /\ pre[p].receipts[Tool(p)].requirements = requirements[p]
  /\ pre[p].envs[Tool(p)].kind = "Env"
  /\ args[p].python \in {"none", pre[p].envs[Tool(p)].interpreter}
  /\ ~args[p].force /\ ~args[p].reinstall /\ ~args[p].upgrade

C1_NoMutation(p) ==
  /\ ~Called(p, EnvironmentOps \cup EntrypointOps)
  /\ envs = pre[p].envs
  /\ shims = pre[p].shims
  /\ OnlyOptionsOf(Tool(p), pre[p].receipts, receipts)

\* C1 as stated: in that case install returns success, touches no environment
\* and no entrypoint, and changes at most the options of the tool's receipt.
C1_AsStated ==
  \A p \in Procs :
    C1_Case(p) =>
      /\ C1_NoMutation(p)
      /\ Returning(p) => result[p].status = "Success"

\* C1, amended: in that case install touches no environment and no entrypoint
\* and changes at most the options of the tool's receipt; it returns success
\* ("already installed"), or the error of add_tool_receipt if the stored
\* options differ from the requested ones and rewriting the receipt fails.
\* The second of two identical installs, the first of which succeeded,
\* returns success and changes nothing at all.
C1_Idempotent ==
  \A p \in Procs :
    /\ C1_Case(p) =>
         /\ C1_NoMutation(p)
         /\ Returning(p) =>
              \/ result[p] = Success("AlreadyInstalled")
              \/ /\ result[p] = Error("AddToolReceipt")
                 /\ pre[p].receipts[Tool(p)].options # ToolOptionsFrom(args[p].options)
                 /\ receipts = pre[p].receipts
    /\ ( /\ Installing(p) /\ Returning(p)
         /\ previous[p] # None /\ previous[p].status = "Success"
         /\ ~args[p].force /\ ~args[p].reinstall /\ ~args[p].upgrade )
       => /\ result[p] = Success("AlreadyInstalled")
          /\ ~Called(p, EnvironmentOps \cup EntrypointOps \cup {"add_tool_receipt"})
          /\ << receipts, envs, shims >> = << pre[p].receipts, pre[p].envs, pre[p].shims >>

\* The second of two identical installs has returned "already installed".
C1_Witness ==
  \E p \in Procs :
    /\ C1_Case(p) /\ Returning(p)
    /\ previous[p] = Success("Installed")
    /\ result[p] = Success("AlreadyInstalled")

\* C2: at most one invocation holds the installation lock; an invocation
\* takes it exactly once, before any other call, and holds it at every call
\* that reads or writes a receipt, an environment or an entrypoint.
C2_MutualExclusion ==
  /\ Cardinality(lock) <= 1
  /\ \A p \in Procs :
       /\ pc[p] \notin {"idle", "return"} => p \in lock
       /\ \A i \in 1..Len(trace[p]) : (trace[p][i].op = "acquire_lock") <=> (i = 1)
       /\ Len(trace[p]) > 1 => trace[p][1].ok /\ p \in lock

\* One invocation is changing an environment while the other was refused the lock.
C2_Witness ==
  \E p \in Procs, q \in Procs :
    /\ p # q
    /\ p \in lock /\ Called(p, EnvironmentOps) /\ pc[p] \notin {"idle", "return"}
    /\ Returning(q) /\ result[q] = Error("LockFailure")

\* C10: an invocation that has returned no longer holds the lock, however it
\* returned, and the invocation that follows it acquires the lock.
C10_LockReleased ==
  \A p \in Procs :
    /\ pc[p] = "idle" => p \notin lock
    /\ (scenario = "sequential" /\ Returning(p)) => result[p] # Error("LockFailure")

\* An invocation holds the lock after the one before it returned an error.
C10_Witness ==
  \E p \in Procs :
    /\ previous[p] = Error("UpdateEnvironment")
    /\ p \in lock /\ Len(trace[p]) > 1

\* The tools an upgrade is asked to upgrade: the one named, or every installed tool.
TargetsOf(p) ==
  IF args[p].name = None THEN tools(pre[p].receipts, pre[p].envs)
  ELSE {args[p].name.value}

\* C3: an upgrade without a name attempts every installed tool, whatever
\* happened to the tools before it.
C3_BatchIndependence ==
  \A p \in Procs :
    (Upgrading(p) /\ Returning(p) /\ args[p].name = None) =>
      \A t \in TargetsOf(p) : CalledFor(p, "get_tool_receipt", t)

\* The resolution for a new environment has failed.
ResolveFailed(p) ==
  \E i \in 1..Len(trace[p]) :
    trace[p][i].op = "resolve_environment" /\ ~trace[p][i].ok

C4_Case(p) ==
  /\ Installing(p)
  /\ pre[p].receipts[Tool(p)] = Absent
  /\ pre[p].envs[Tool(p)] = NoEnv
  /\ ResolveFailed(p)

\* C4: when the resolution fails for a tool with no receipt and no
\* environment, install returns an error, the tool still has no environment,
\* no receipt and no entrypoint, and create_environment, sync_environment and
\* install_executables are never called.
C4_ResolutionBeforeMutation ==
  \A p \in Procs :
    C4_Case(p) =>
      /\ Returning(p) /\ result[p].status = "Error"
      /\ envs[Tool(p)] = NoEnv
      /\ receipts[Tool(p)] = Absent
      /\ shims[Tool(p)].kind # "Shim"
      /\ << receipts, envs, shims >> = << pre[p].receipts, pre[p].envs, pre[p].shims >>
      /\ ~Called(p, {"create_environment", "sync_environment", "install_executables"})

C4_Witness == \E p \in Procs : C4_Case(p) /\ Returning(p)

C5_Case(p) == Installing(p) /\ pre[p].receipts[Tool(p)] = Invalid

C6_Case(p) ==
  /\ args[p] # None /\ args[p].cmd = "install" /\ pc[p] # "idle"
  /\ args[p].from # "none"
  /\ NameOf(args[p].from) # NameOf(args[p].package)

C6_Untouched(p) ==
  /\ Returning(p) /\ result[p].status = "Error"
  /\ trace[p] = <<>> /\ p \notin lock /\ pre[p] = None

\* C6 as stated: differing names always end in NameConflict, whatever the
\* resolver returns, before the lock and before any call.
C6_AsStated ==
  \A p \in Procs : C6_Case(p) => C6_Untouched(p) /\ result[p].kind = "NameConflict"

\* C6, amended: differing names always end in an error before the lock and
\* before any call.  The error is NameConflict if the positional package is
\* not a bare name or the --from requirement resolves; if the interpreter is
\* not found, or the resolver fails on the --from requirement, that error is
\* returned instead.
C6_NameConflict ==
  \A p \in Procs :
    C6_Case(p) =>
      /\ C6_Untouched(p)
      /\ result[p].kind =
           IF find_or_download(args[p].python).kind = "Err" THEN "InterpreterNotFound"
           ELSE IF ~IsPackageName(args[p].package) THEN "NameConflict"
           ELSE IF resolve_names(args[p].from).kind = "Err" THEN "ResolveNames"
           ELSE "NameConflict"

\* A --from requirement that resolves to another name has been rejected.
C6_Witness ==
  \E p \in Procs :
    /\ C6_Case(p) /\ Returning(p)
    /\ IsPackageName(args[p].package) /\ resolve_names(args[p].from).kind = "Ok"
    /\ result[p] = Error("NameConflict")

\* C7: an upgraded tool keeps the requirements and the requested interpreter
\* of its old receipt, in the update and in the receipt written; only the
\* options of the receipt may change.
C7_RequirementsKept ==
  \A p \in Procs :
    Upgrading(p) =>
      /\ \A t \in upgraded[p] :
           /\ pre[p].receipts[t].kind = "Valid" /\ receipts[t].kind = "Valid"
           /\ receipts[t].requirements = pre[p].receipts[t].requirements
           /\ receipts[t].python = pre[p].receipts[t].python
           /\ [receipts[t] EXCEPT !.options = pre[p].receipts[t].options] = pre[p].receipts[t]
           /\ envs[t].requirements = pre[p].receipts[t].requirements
      /\ pc[p] \in {"u_remove_entrypoints", "u_install_executables"} =>
           envs[Head(names[p])].requirements = pre[p].receipts[Head(names[p])].requirements

\* An upgrade has rewritten a receipt of several requirements with other options.
C7_Witness ==
  \E p \in Procs, t \in Tools :
    /\ Upgrading(p) /\ Returning(p) /\ t \in upgraded[p]
    /\ Len(receipts[t].requirements) > 1
    /\ receipts[t].options # pre[p].receipts[t].options

\* The upgrade of `t` went through: its entrypoints were installed.
UpgradedOk(p, t) ==
  \E i \in 1..Len(trace[p]) : trace[p][i] = CallExecutables(t, TRUE, TRUE)

C9_Case(p) ==
  Upgrading(p) /\ args[p].name = None /\ tools(pre[p].receipts, pre[p].envs) = {}

\* C9: an upgrade without a name, with no tool installed, returns success
\* with "nothing to upgrade" after listing the tools, and makes no other call
\* and no change.
C9_EmptyUpgrade ==
  \A p \in Procs :
    C9_Case(p) =>
      /\ \A i \in 1..Len(trace[p]) : trace[p][i].op \in {"acquire_lock", "tools"}
      /\ << receipts, envs, shims >> = << pre[p].receipts, pre[p].envs, pre[p].shims >>
      /\ pc[p] \in {"u_tools", "return"}
      /\ Returning(p) => result[p] = Success("NothingToUpgrade")

C9_Witness ==
  \E p \in Procs :
    C9_Case(p) /\ Returning(p) /\ result[p] = Success("NothingToUpgrade")

\* C11: an invocation that tries to take the installation lock while another
\* holds it returns LockFailure at once: it made no other call, it does not
\* hold the lock, and no receipt, environment or entrypoint changes in any of
\* its steps.
C11_LockFailure ==
  [][\A p \in Procs :
       /\ (pc[p] = "idle" /\ pc'[p] # "idle" /\ lock # {} /\ trace'[p] # <<>>) =>
            /\ pc'[p] = "return"
            /\ result'[p] = Error("LockFailure")
            /\ trace'[p] = << CallLock(FALSE) >>
            /\ pre'[p] = None
            /\ UNCHANGED << receipts, envs, shims, lock >>
       /\ (pc[p] = "return" /\ result[p] = Error("LockFailure") /\ pc'[p] # "return") =>
            /\ p \notin lock
            /\ UNCHANGED << receipts, envs, shims, lock >>]_vars

\* An upgrade was refused the lock that an install holds.
C11_Witness ==
  \E p \in Procs, q \in Procs :
    /\ p # q
    /\ args[p] # None /\ args[p].cmd = "upgrade"
    /\ args[q] # None /\ args[q].cmd = "install" /\ q \in lock
    /\ Returning(p) /\ result[p] = Error("LockFailure")
    /\ trace[p] = << CallLock(FALSE) >>

OptionFields == {"index_url", "resolution"}

\* The value of field `f`: that of the command line if given, else that of
\* the receipt if it has one, else the user's default.
Effective(f, cli, receipt, filesystem) ==
  IF cli[f] # "none" THEN cli[f]
  ELSE IF receipt[f] # "none" THEN receipt[f]
  ELSE filesystem[f]

\* C12: in an upgrade, every option field used to update a tool and stored in
\* its new receipt is the command line's if given, else that of the tool's
\* own old receipt if it has one, else the user's default.
C12_MergePrecedence ==
  \A p \in Procs :
    Upgrading(p) =>
      /\ \A t \in upgraded[p], f \in OptionFields :
           receipts[t].options[f] =
             Effective(f, args[p].args, pre[p].receipts[t].options, args[p].filesystem)
      /\ pc[p] \in {"u_update_environment", "u_remove_entrypoints", "u_install_executables"} =>
           \A f \in OptionFields :
             options[p][f] =
               Effective(f, args[p].args, pre[p].receipts[Head(names[p])].options,
                         args[p].filesystem)

\* An upgrade of all tools, with options on the command line and in the
\* user's settings, has left two tools with different options.
C12_Witness ==
  \E p \in Procs :
    /\ Upgrading(p) /\ Returning(p) /\ args[p].name = None
    /\ upgraded[p] = Tools
    /\ args[p].args # NoOptions /\ args[p].filesystem # NoOptions
    /\ pre[p].receipts["a"].options # pre[p].receipts["b"].options
    /\ receipts["a"].options # receipts["b"].options

\* The case of C13: an upgrade of one named tool that lacks a valid receipt
\* or a valid environment.
C13_Case(p) ==
  /\ Upgrading(p) /\ args[p].name # None
  /\ \/ pre[p].receipts[args[p].name.value].kind # "Valid"
     \/ pre[p].envs[args[p].name.value].kind # "Env"

\* What the upgrade reports for a tool with receipt `r` and environment `e`.
C13_Guidance(r, e) ==
  IF r.kind = "Absent" THEN "NotInstalled"
  ELSE IF r.kind = "Invalid" THEN "InvalidReceipt"
  ELSE IF e.kind = "NoEnv" THEN "NotInstalled"
  ELSE "InvalidEnvironment"

\* C13: the upgrade of one named tool without a valid receipt or a valid
\* environment fails right after the lookup that finds it missing, with the
\* guidance for that case, and updates no environment, removes and installs
\* no entrypoint and writes no receipt.
C13_MissingTarget ==
  \A p \in Procs :
    C13_Case(p) =>
      /\ pc[p] \in {"u_get_tool_receipt", "u_get_environment", "return"}
      /\ \A i \in 1..Len(trace[p]) :
           trace[p][i].op \in {"acquire_lock", "get_tool_receipt", "get_environment"}
      /\ pre[p].receipts[args[p].name.value].kind # "Valid" => pc[p] # "u_get_environment"
      /\ << receipts, envs, shims >> = << pre[p].receipts, pre[p].envs, pre[p].shims >>
      /\ Returning(p) =>
           result[p] = Failure(C13_Guidance(pre[p].receipts[args[p].name.value],
                                            pre[p].envs[args[p].name.value]))

\* The upgrade of a named tool with a receipt and a broken environment has failed.
C13_Witness ==
  \E p \in Procs :
    /\ C13_Case(p) /\ Returning(p)
    /\ pre[p].receipts[args[p].name.value].kind = "Valid"
    /\ pre[p].envs[args[p].name.value] = BadEnv
    /\ result[p] = Failure("InvalidEnvironment")

\* The case of C14: the install took the path of a new environment and the
\* resolution of the candidate set failed.
C14_Case(p) == Installing(p) /\ ResolveFailed(p)

\* The calls of the path of a new environment that follow the resolution.
AfterResolution == {"create_environment", "remove_entrypoints", "sync_environment"}

\* C14 as stated: when that resolution fails, nothing was deleted, replaced,
\* removed or overwritten in the run, an invalid receipt or not.
C14_AsStated ==
  \A p \in Procs :
    C14_Case(p) =>
      /\ ~Called(p, AfterResolution)
      /\ << receipts, envs, shims >> = << pre[p].receipts, pre[p].envs, pre[p].shims >>

\* C14, amended: on the path of a new environment, create_environment,
\* remove_entrypoints and sync_environment are called only after the
\* resolution succeeded.  When the resolution fails install returns its error;
\* no environment was created or replaced, no entrypoint removed and no
\* receipt written, and if the stored receipt was not invalid nothing changed
\* at all.  After an invalid receipt the tool's environment was already
\* deleted, before the resolution, and that is the only change.
C14_NoDestructionBeforeResolution ==
  \A p \in Procs :
    (Installing(p) /\ Called(p, {"resolve_environment"})) =>
      /\ \A i \in 1..Len(trace[p]) :
           trace[p][i].op \in AfterResolution =>
             \E j \in 1..(i - 1) : trace[p][j] = Call("resolve_environment", Tool(p), TRUE)
      /\ ResolveFailed(p) =>
           /\ Returning(p) /\ result[p] = Error("ResolveEnvironment")
           /\ ~Called(p, AfterResolution \cup
                         {"update_environment", "install_executables", "add_tool_receipt"})
           /\ receipts = pre[p].receipts
           /\ IF pre[p].receipts[Tool(p)] = Invalid
              THEN /\ trace[p][3].op = "remove_environment"
                   /\ envs = [pre[p].envs EXCEPT ![Tool(p)] = NoEnv]
                   /\ shims = Stale(pre[p].shims, Tool(p))
              ELSE /\ ~Called(p, {"remove_environment"})
                   /\ envs = pre[p].envs
                   /\ shims = pre[p].shims

\* The resolution has failed for a tool whose environment does not satisfy
\* the requested interpreter: the environment is still there.
C14_Witness ==
  \E p \in Procs :
    /\ C14_Case(p) /\ Returning(p)
    /\ pre[p].receipts[Tool(p)].kind = "Valid"
    /\ pre[p].envs[Tool(p)].kind = "Env"
    /\ envs[Tool(p)] = pre[p].envs[Tool(p)]

\* The case of C15: an interpreter is requested and the environment of the
\* tool does not satisfy it.
C15_Case(p) ==
  /\ Installing(p)
  /\ args[p].python # "none"
  /\ pre[p].envs[Tool(p)].kind = "Env"
  /\ ~satisfied(args[p].python, pre[p].envs[Tool(p)].interpreter)

\* The resolution for a new environment has succeeded.
Resolved(p) ==
  \E i \in 1..Len(trace[p]) : trace[p][i] = Call("resolve_environment", Tool(p), TRUE)

\* The environment is neither reused as it is nor updated in place.
C15_NoReuse(p) ==
  /\ ~Called(p, {"update_environment", "add_tool_receipt"})
  /\ pc[p] \notin {"i_update_environment", "i_add_tool_receipt"}
  /\ result[p] # Success("AlreadyInstalled")

\* C15 as stated: in that case install never reuses the environment, and the
\* environment, the receipt and the entrypoints are unchanged until the
\* resolution has succeeded.
C15_AsStated ==
  \A p \in Procs :
    C15_Case(p) =>
      /\ C15_NoReuse(p)
      /\ ~Resolved(p) =>
           << receipts, envs, shims >> = << pre[p].receipts, pre[p].envs, pre[p].shims >>

\* C15, amended: in that case install never takes the short-circuit and never
\* updates the environment in place.  If the stored receipt is absent or valid
\* install goes on to the resolution for a new environment, and the
\* environment, the receipt and the entrypoints are unchanged until that
\* resolution has succeeded.  If the stored receipt is invalid the environment
\* is deleted by the recovery before it is looked up; the receipt and the
\* entrypoint files are unchanged until the resolution has succeeded.
C15_InterpreterMismatch ==
  \A p \in Procs :
    C15_Case(p) =>
      /\ C15_NoReuse(p)
      /\ pre[p].receipts[Tool(p)] # Invalid =>
           /\ ~Called(p, {"remove_environment"})
           /\ Called(p, {"get_environment"}) =>
                pc[p] = "i_resolve_environment" \/ Called(p, {"resolve_environment"})
           /\ ~Resolved(p) =>
                << receipts, envs, shims >> = << pre[p].receipts, pre[p].envs, pre[p].shims >>
      /\ pre[p].receipts[Tool(p)] = Invalid =>
           /\ Len(trace[p]) >= 3 => trace[p][3].op = "remove_environment"
           /\ Called(p, {"get_environment"}) => envs[Tool(p)] # pre[p].envs[Tool(p)]
           /\ ~Resolved(p) =>
                /\ receipts = pre[p].receipts
                /\ envs \in {pre[p].envs, [pre[p].envs EXCEPT ![Tool(p)] = NoEnv]}
                /\ shims \in {pre[p].shims, Stale(pre[p].shims, Tool(p))}

\* A tool installed with the same requirements was installed again for
\* another interpreter, in a new environment.
C15_Witness ==
  \E p \in Procs :
    /\ C15_Case(p) /\ Returning(p)
    /\ pre[p].receipts[Tool(p)].kind = "Valid"
    /\ pre[p].receipts[Tool(p)].requirements = requirements[p]
    /\ ~args[p].force /\ ~args[p].reinstall /\ ~args[p].upgrade
    /\ result[p] = Success("Installed")
    /\ envs[Tool(p)].interpreter = args[p].python

\* Call `i` of `p` is made on the path of an update in place: any call of an
\* upgrade, and a call of an install that found a usable environment.
InPlace(p, i) ==
  /\ args[p] # None /\ pre[p] # None
  /\ args[p].cmd = "install" => ~Called(p, {"resolve_environment"})
  /\ i \in 1..Len(trace[p])

\* The tool that `p` is working on.
Current(p) == IF args[p].cmd = "install" THEN Tool(p) ELSE Head(names[p])

\* C16: on the path of an update in place, the entrypoints of a tool are
\* removed for the receipt read before the update, only after
\* update_environment has returned Ok for the tool and before
\* install_executables writes its entrypoints and its receipt; if
\* update_environment fails, the receipt and the entrypoints of the tool are as
\* they were before the invocation.
C16_UpdateOrdering ==
  \A p \in Procs :
    /\ \A i \in 1..Len(trace[p]) :
         (InPlace(p, i) /\ trace[p][i].op = "remove_entrypoints") =>
           /\ \E j \in 1..(i - 1) :
                trace[p][j] = Call("update_environment", trace[p][i].tool, TRUE)
           /\ \A k \in 1..(i - 1) :
                ~(trace[p][k].op = "install_executables" /\ trace[p][k].tool = trace[p][i].tool)
           /\ pre[p].receipts[trace[p][i].tool].kind = "Valid"
    /\ \A i \in 1..Len(trace[p]) :
         (InPlace(p, i) /\ trace[p][i].op = "install_executables"
            /\ pre[p].receipts[trace[p][i].tool].kind = "Valid") =>
           \E j \in 1..(i - 1) :
             trace[p][j] = Call("remove_entrypoints", trace[p][i].tool, TRUE)
    /\ pc[p] \in {"i_update_environment", "u_update_environment", "u_remove_entrypoints",
                  "u_install_executables"}
         \/ (pc[p] \in {"i_remove_entrypoints", "i_install_executables"}
               /\ existing_environment[p].kind = "Some") =>
           /\ receipts[Current(p)] = pre[p].receipts[Current(p)]
           /\ existing_tool_receipt[p].kind = "Some" =>
                existing_tool_receipt[p].value = pre[p].receipts[Current(p)]
           /\ pc[p] \notin {"i_install_executables", "u_install_executables"} =>
                shims[Current(p)] = pre[p].shims[Current(p)]
    /\ \A i \in 1..Len(trace[p]) :
         (InPlace(p, i) /\ trace[p][i].op = "update_environment" /\ ~trace[p][i].ok) =>
           /\ i = Len(trace[p])
           /\ Returning(p) /\ result[p] = Error("UpdateEnvironment")
           /\ receipts[trace[p][i].tool] = pre[p].receipts[trace[p][i].tool]
           /\ shims[trace[p][i].tool] = pre[p].shims[trace[p][i].tool]

\* An upgrade of all tools has failed in the update of the second tool, after
\* it replaced the entrypoints of the first.
C16_Witness ==
  \E p \in Procs :
    /\ Upgrading(p) /\ Returning(p) /\ result[p] = Error("UpdateEnvironment")
    /\ upgraded[p] = {"a"}
    /\ trace[p][Len(trace[p])] = Call("update_environment", "b", FALSE)
    /\ receipts["b"] = pre[p].receipts["b"] /\ shims["b"] = pre[p].shims["b"]
    /\ shims["b"].kind = "Shim"

\* The receipt was rewritten: add_tool_receipt returned Ok.
Rewritten(p) ==
  \E i \in 1..Len(trace[p]) : trace[p][i] = Call("add_tool_receipt", Tool(p), TRUE)

\* C17: an install with nothing to do calls add_tool_receipt if and only if
\* the options of the stored receipt differ from the requested ones, and at
\* most once; the receipt it writes has the requested options and the
\* requirements and the interpreter of the stored one; without a write the
\* receipts are unchanged.
C17_OptionsOnlyRewrite ==
  \A p \in Procs :
    (C1_Case(p) /\ (Returning(p) \/ pc[p] = "i_add_tool_receipt")) =>
      /\ (Called(p, {"add_tool_receipt"}) \/ pc[p] = "i_add_tool_receipt") <=>
           pre[p].receipts[Tool(p)].options # ToolOptionsFrom(args[p].options)
      /\ Cardinality({i \in 1..Len(trace[p]) : trace[p][i].op = "add_tool_receipt"}) <= 1
      /\ Rewritten(p) =>
           /\ receipts[Tool(p)] = Valid(pre[p].receipts[Tool(p)].requirements,
                                        ToolOptionsFrom(args[p].options),
                                        pre[p].receipts[Tool(p)].python)
           /\ \A u \in Tools \ {Tool(p)} : receipts[u] = pre[p].receipts[u]
      /\ ~Rewritten(p) => receipts = pre[p].receipts

\* An install with nothing to do has rewritten a receipt whose options differed.
C17_Witness ==
  \E p \in Procs :
    /\ C1_Case(p) /\ Returning(p) /\ Rewritten(p)
    /\ receipts[Tool(p)].options # pre[p].receipts[Tool(p)].options
    /\ receipts[Tool(p)].python # args[p].python

\* The receipt that an install with arguments `a` is to leave: the primary
\* requirement, then those of --with, with the options and the interpreter
\* request of the command.
C18_Receipt(a) ==
  Valid(<< IF a.from # "none" THEN a.from ELSE a.package >> \o a.with,
        [index_url |-> a.options.index_url, resolution |-> a.options.resolution],
        a.python)

\* C18: after an install that succeeded without the short-circuit, the
\* receipt of the tool has the candidate requirements, primary first, and the
\* options and the interpreter request of the command; the same install run
\* again finds that receipt, with requirements equal to its candidate set.
C18_ReceiptWritten ==
  \A p \in Procs :
    /\ (Installing(p) /\ Returning(p) /\ result[p] = Success("Installed")) =>
         /\ receipts[Tool(p)] = C18_Receipt(args[p])
         /\ receipts[Tool(p)].requirements = requirements[p]
         /\ Head(receipts[Tool(p)].requirements) = from[p]
    /\ (Installing(p) /\ previous[p] = Success("Installed")) =>
         /\ pre[p].receipts[Tool(p)] = C18_Receipt(args[p])
         /\ pre[p].receipts[Tool(p)].requirements = requirements[p]

\* An install has replaced a receipt by one with another primary requirement,
\* a --with requirement and another interpreter.
C18_Witness ==
  \E p \in Procs :
    /\ Installing(p) /\ Returning(p) /\ result[p] = Success("Installed")
    /\ args[p].package = "a==1" /\ args[p].with = << "w" >> /\ args[p].python = "py2"
    /\ pre[p].receipts[Tool(p)].kind = "Valid"
    /\ receipts[Tool(p)] # pre[p].receipts[Tool(p)]

\* The tool an install is asked for.
C19_Target(p) ==
  NameOf(IF args[p].from # "none" THEN args[p].from ELSE args[p].package)

\* C19: every call of an install is made for the tool it is asked for, and the
\* receipt and the environment of every other tool are as they were before the
\* invocation, at every step and however it returns; an install that fails
\* before it takes the lock makes no call at all.
C19_Frame ==
  \A p \in Procs :
    (args[p] # None /\ args[p].cmd = "install" /\ pc[p] # "idle") =>
      IF pre[p] = None
      THEN Returning(p) /\ result[p].status = "Error" /\ Len(trace[p]) <= 1
      ELSE /\ \A i \in 2..Len(trace[p]) : trace[p][i].tool = C19_Target(p)
           /\ \A u \in Tools \ {C19_Target(p)} :
                /\ receipts[u] = pre[p].receipts[u]
                /\ envs[u] = pre[p].envs[u]

\* An install of "b" has created an environment and written a receipt while
\* "a" is installed.
C19_Witness ==
  \E p \in Procs :
    /\ Installing(p) /\ Returning(p) /\ C19_Target(p) = "b"
    /\ Called(p, {"create_environment"}) /\ result[p] = Success("Installed")
    /\ receipts["b"] # pre[p].receipts["b"] /\ envs["b"] # pre[p].envs["b"]
    /\ receipts["a"].kind = "Valid" /\ envs["a"].kind = "Env"

====
